---- MODULE Spec2Model ----
(***************************************************************************)
(* Admission and handshake of inbound streaming connections:               *)
(* stream_receiver_accept_connection() and its helpers in                  *)
(* src/streaming/stream-receiver-connection.c.                             *)
(*                                                                         *)
(* Every web-server thread that serves a streaming request is an attempt.  *)
(* An attempt owns one web_client (w) and allocates one receiver_state     *)
(* (rpt).  Hosts, their receiver pointer and its lock, the rate-limit      *)
(* timestamp and its spinlock, and the clock are shared.                   *)
(***************************************************************************)
EXTENDS Integers, Sequences, FiniteSets, TLC

\* ------------------------------------------------------------------ bounds

NumAttempts == 2
\* the clock starts here and advances by at most MaxAdvance
ClockStart == 40
MaxAdvance == 10
\* the configured web_client_streaming_rate_t when the limiter is on
RateInterval == 10
\* the longest query string, in name=value pairs
MaxFields == 2

\* ---------------------------------------------------------------- constants

NULL == 0
\* age threshold of the dedup check
STALE_AGE == 30

Attempts == 1..NumAttempts
\* a receiver accepted before the modelled attempts started
OldReceiver == NumAttempts + 1
Desc == Attempts \cup {OldReceiver}

\* machine identities of remote nodes; LocalGuid is localhost->machine_guid
Guids == {"g1", "g2"}
LocalGuid == "local"

\* the clock is read one rate interval apart
TickSteps == {RateInterval}

\* response bodies and raw-transport messages
START_STREAMING_ERROR_NOT_PERMITTED == "not permitted"
START_STREAMING_ERROR_BUSY_TRY_LATER == "busy, try later"
START_STREAMING_ERROR_ALREADY_STREAMING == "already streaming"
START_STREAMING_ERROR_SAME_LOCALHOST == "same localhost"
START_STREAMING_ERROR_INTERNAL_ERROR == "internal error"
START_STREAMING_ERROR_INITIALIZATION == "initialization in progress"
START_STREAMING_PROMPT == "prompt"

HTTP_RESP_OK == "HTTP_RESP_OK"
HTTP_RESP_UNAUTHORIZED == "HTTP_RESP_UNAUTHORIZED"
HTTP_RESP_SERVICE_UNAVAILABLE == "HTTP_RESP_SERVICE_UNAVAILABLE"
HTTP_RESP_CONFLICT == "HTTP_RESP_CONFLICT"

\* ----------------------------------------------------------------- requests

\* What the parsed request and the key-policy store say about it: the three
\* required fields, whether key and machine_guid are UUIDs, and the policy
\* (category, enabled, IP allowed) of each.  guid names the machine; sameFd is
\* w->ifd == w->ofd.
AllRequests ==
    [hasKey: BOOLEAN, hasHost: BOOLEAN, hasGuid: BOOLEAN,
     keyUuid: BOOLEAN, keyType: {"api", "machine"}, keyEnabled: BOOLEAN, keyIp: BOOLEAN,
     guidUuid: BOOLEAN, guidType: {"api", "machine"}, guidEnabled: BOOLEAN, guidIp: BOOLEAN,
     guid: {"g1", LocalGuid}, sameFd: {TRUE}]

GoodRequest(g, same) ==
    [hasKey |-> TRUE, hasHost |-> TRUE, hasGuid |-> TRUE,
     keyUuid |-> TRUE, keyType |-> "api", keyEnabled |-> TRUE, keyIp |-> TRUE,
     guidUuid |-> TRUE, guidType |-> "machine", guidEnabled |-> TRUE, guidIp |-> TRUE,
     guid |-> g, sameFd |-> same]

\* the requests of the concurrent attempts: valid ones for two machines (one
\* of them on a connection with separate input and output descriptors) and for
\* this node itself, and one whose machine_guid is the name of an API key
Requests ==
    {GoodRequest("g1", TRUE), GoodRequest("g2", FALSE), GoodRequest(LocalGuid, TRUE),
     [GoodRequest("g1", TRUE) EXCEPT !.guidType = "api"]}

NoRequest == [GoodRequest("g1", TRUE) EXCEPT !.guid = "none"]

\* ------------------------------------------------------------------- state

VARIABLES
    pc,                      \* where each attempt is in the call
    req,                     \* the request each attempt serves
    w,                       \* struct web_client of each attempt
    ret,                     \* the value the call returned
    status,                  \* the status tag last passed to stream_receiver_log_status
    loc,                     \* the locals now, age, receiver_stale, receiver_working, host
    wire,                    \* the messages handed to nd_sock_send_timeout
    visited,                 \* the stages the attempt went through
    overlap,                 \* the attempts that were inside the call when it was entered
    rpt,                     \* struct receiver_state of each descriptor
    sockCloses,              \* how many times each connection's socket was closed
    hostState,               \* the host registry: "none", "archived", "pending", "ready"
    hostReceiver,            \* host->receiver
    receiverLock,            \* holder of rrdhost_receiver_lock(host), NULL when free
    rrdReaders,              \* holders of rrd_rdlock()
    spinlock,                \* holder of the rate-limit spinlock, NULL when free
    last_stream_accepted_t,  \* the static timestamp of the rate limiter
    web_client_streaming_rate_t,
    web_server_mode,
    clock,                   \* now_realtime_sec() / now_monotonic_sec()
    queue,                   \* receivers handed to the stream threads
    query,                   \* the decoded query string the parser was given
    decoded_query_string,    \* the name=value pairs the parser has not taken yet
    parsed,                  \* the attributes of rpt the parser fills
    initial_response,        \* the buffer of the handshake reply
    parse_pc                 \* where the parser and the reply are

vars == <<pc, req, w, ret, status, loc, wire, visited, overlap, rpt, sockCloses, hostState,
          hostReceiver, receiverLock, rrdReaders, spinlock, last_stream_accepted_t,
          web_client_streaming_rate_t, web_server_mode, clock, queue,
          query, decoded_query_string, parsed, initial_response, parse_pc>>

attemptVars == <<pc, req, w, ret, status, loc, wire, visited, overlap>>
hostVars == <<hostState, hostReceiver, receiverLock, rrdReaders>>
rateVars == <<spinlock, last_stream_accepted_t>>
confVars == <<web_client_streaming_rate_t, web_server_mode>>
parseVars == <<query, decoded_query_string, parsed, initial_response, parse_pc>>

NoLocals == [now |-> 0, age |-> 0, receiver_stale |-> FALSE,
             receiver_working |-> FALSE, host |-> "none"]

NewWebClient == [ifd |-> "fd", ofd |-> "fd", ssl |-> "conn", dead |-> FALSE,
                 dont_close |-> FALSE, body |-> ""]

\* memory that holds no receiver_state
NoRpt == [alloc |-> "none", fd |-> "none", host |-> "none", last_msg_t |-> 0,
          shutdown |-> FALSE, frees |-> 0, system_info |-> "none", info_frees |-> 0]

\* a receiver accepted earlier, attached to the host of g1 and running
RunningRpt(t) == [alloc |-> "live", fd |-> "fd", host |-> "g1", last_msg_t |-> t,
                  shutdown |-> FALSE, frees |-> 0, system_info |-> "none", info_frees |-> 0]

\* a string attribute the parser has not set
NoString == "(null)"

\* the capability bits, and the sentinel of line 287
STREAM_CAP_V1 == 1
STREAM_CAP_V2 == 2
STREAM_CAP_VN == 4
STREAM_CAP_VCAPS == 8
STREAM_CAP_LZ4 == 16
STREAM_CAP_ZSTD == 32
STREAM_CAP_INVALID == 64

default_rrd_update_every == 1

\* lines 280-303: the attributes of a descriptor that parsed nothing yet;
\* info_calls are the calls of rrdhost_set_system_info_variable
NoParsed ==
    [key |-> NoString, hostname |-> NoString, registry_hostname |-> NoString,
     machine_guid |-> NoString, update_every |-> default_rrd_update_every,
     os |-> NoString, timezone |-> NoString, abbrev_timezone |-> NoString,
     utc_offset |-> 0, hops |-> 1, info_hops |-> 1, ml_capable |-> 0,
     ml_enabled |-> 0, mc_version |-> 0, capabilities |-> STREAM_CAP_INVALID,
     info_calls |-> <<>>]

\* no query string is being parsed and no reply is being built
NoParse ==
    /\ query = <<>>
    /\ decoded_query_string = <<>>
    /\ parsed = NoParsed
    /\ initial_response = <<>>
    /\ parse_pc = "off"

\* The attempts have not connected yet.  The host of g1 may be unknown,
\* archived, still loading its contexts, or ready; a ready host may be served
\* by a receiver accepted earlier, whose last message is recent, almost
\* STALE_AGE old, or STALE_AGE old.  The rate limiter may be off, never used, or
\* last used one interval ago.
InitShared ==
    /\ clock = ClockStart
    /\ web_server_mode \in {"static-threaded", "multi-threaded"}
    /\ web_client_streaming_rate_t \in {0, RateInterval}
    /\ last_stream_accepted_t \in
         IF web_client_streaming_rate_t = 0 THEN {0} ELSE {0, ClockStart - RateInterval}
    /\ spinlock = NULL
    /\ rrdReaders = {}
    /\ receiverLock = [g \in Guids |-> NULL]
    /\ hostState \in [Guids -> {"none", "archived", "pending", "ready"}]
    /\ hostState["g2"] = "none"
    /\ \/ /\ hostReceiver = [g \in Guids |-> NULL]
          /\ rpt = [d \in Desc |-> NoRpt]
          /\ queue = {}
       \/ /\ hostState["g1"] = "ready"
          /\ hostReceiver = [g \in Guids |-> IF g = "g1" THEN OldReceiver ELSE NULL]
          /\ \E t \in {ClockStart, ClockStart - STALE_AGE + 1, ClockStart - STALE_AGE} :
               rpt = [d \in Desc |-> IF d = OldReceiver THEN RunningRpt(t) ELSE NoRpt]
          /\ queue = {OldReceiver}
    /\ sockCloses = [d \in Desc |-> 0]

InitWebClients ==
    /\ w = [a \in Attempts |-> NewWebClient]
    /\ ret = [a \in Attempts |-> "none"]
    /\ status = [a \in Attempts |-> "none"]
    /\ loc = [a \in Attempts |-> NoLocals]
    /\ wire = [a \in Attempts |-> <<>>]
    /\ visited = [a \in Attempts |-> {}]
    /\ overlap = [a \in Attempts |-> {}]
    /\ NoParse

InitAttempts ==
    /\ pc = [a \in Attempts |-> "idle"]
    /\ req = [a \in Attempts |-> NoRequest]
    /\ InitWebClients

Init == InitShared /\ InitAttempts

\* --------------------------------------------------------------- the clock

Tick ==
    /\ \E d \in TickSteps :
         /\ clock + d <= ClockStart + MaxAdvance
         /\ clock' = clock + d
    /\ UNCHANGED <<attemptVars, rpt, sockCloses, hostVars, rateVars, confVars, parseVars, queue>>

\* ------------------------------------------------- key-policy store (stream.conf)

stream_conf_is_key_type(type, wanted) == type = wanted
stream_conf_api_key_is_enabled(enabled) == enabled
stream_conf_api_key_allows_client(allowed) == allowed

\* ------------------------------------------------------------------ helpers

\* stream_receiver_free: closes the socket the descriptor holds, frees the
\* system_info the descriptor still refers to, and frees the descriptor; what
\* the freed memory held is gone
stream_receiver_free(d) ==
    /\ sockCloses' = [sockCloses EXCEPT ![d] = IF rpt[d].fd = "fd" THEN @ + 1 ELSE @]
    /\ rpt' = [rpt EXCEPT ![d] =
                 [NoRpt EXCEPT !.alloc = "freed",
                               !.frees = rpt[d].frees + 1,
                               !.info_frees = IF rpt[d].system_info = "own"
                                              THEN rpt[d].info_frees + 1
                                              ELSE rpt[d].info_frees]]

\* the web_client after stream_receiver_response_permission_denied
stream_receiver_response_permission_denied(wc) ==
    [wc EXCEPT !.body = START_STREAMING_ERROR_NOT_PERMITTED]

\* the web_client after stream_receiver_response_too_busy_now
stream_receiver_response_too_busy_now(wc) ==
    [wc EXCEPT !.body = START_STREAMING_ERROR_BUSY_TRY_LATER]

\* a takeover that leaves the descriptors of the web_client as they were
TakenOverWebClientKeepsFd(wc) ==
    [wc EXCEPT !.ssl = "unset", !.dead = TRUE, !.body = ""]

\* the web_client after stream_receiver_takeover_web_connection
TakenOverWebClient(wc) ==
    IF web_server_mode = "static-threaded"
    THEN [wc EXCEPT !.ssl = "unset", !.dead = TRUE, !.dont_close = TRUE, !.body = ""]
    ELSE IF wc.ifd = wc.ofd
         THEN [wc EXCEPT !.ssl = "unset", !.dead = TRUE, !.ifd = "none", !.ofd = "none",
                         !.body = ""]
         ELSE [wc EXCEPT !.ssl = "unset", !.dead = TRUE, !.ifd = "none", !.body = ""]

\* stream_receiver_takeover_web_connection: rpt->sock takes w->ifd and w->ssl
stream_receiver_takeover_web_connection(a) ==
    /\ rpt' = [rpt EXCEPT ![a].fd = w[a].ifd]
    /\ w' = [w EXCEPT ![a] = TakenOverWebClient(w[a])]

\* the checks with the IP of the key looked at before whether the key is enabled
ValidationStatusIpFirst(r) ==
    IF ~r.hasKey THEN "STREAM_STATUS_NO_API_KEY"
    ELSE IF ~r.hasHost THEN "STREAM_STATUS_NO_HOSTNAME"
    ELSE IF ~r.hasGuid THEN "STREAM_STATUS_NO_MACHINE_GUID"
    ELSE IF ~r.keyUuid THEN "STREAM_STATUS_INVALID_API_KEY"
    ELSE IF ~r.guidUuid THEN "STREAM_STATUS_INVALID_MACHINE_GUID"
    ELSE IF r.keyType # "api" THEN "STREAM_STATUS_INVALID_API_KEY"
    ELSE IF ~r.keyIp THEN "STREAM_STATUS_NOT_ALLOWED_IP"
    ELSE IF ~r.keyEnabled THEN "STREAM_STATUS_API_KEY_DISABLED"
    ELSE IF r.guidType # "machine" THEN "STREAM_STATUS_INVALID_MACHINE_GUID"
    ELSE IF ~r.guidEnabled THEN "STREAM_STATUS_MACHINE_GUID_DISABLED"
    ELSE IF ~r.guidIp THEN "STREAM_STATUS_NOT_ALLOWED_IP"
    ELSE "OK"

\* the checks without the one on the category of the machine_guid (line 497)
ValidationStatusNoGuidType(r) ==
    IF ~r.hasKey THEN "STREAM_STATUS_NO_API_KEY"
    ELSE IF ~r.hasHost THEN "STREAM_STATUS_NO_HOSTNAME"
    ELSE IF ~r.hasGuid THEN "STREAM_STATUS_NO_MACHINE_GUID"
    ELSE IF ~r.keyUuid THEN "STREAM_STATUS_INVALID_API_KEY"
    ELSE IF ~r.guidUuid THEN "STREAM_STATUS_INVALID_MACHINE_GUID"
    ELSE IF r.keyType # "api" THEN "STREAM_STATUS_INVALID_API_KEY"
    ELSE IF ~r.keyEnabled THEN "STREAM_STATUS_API_KEY_DISABLED"
    ELSE IF ~r.keyIp THEN "STREAM_STATUS_NOT_ALLOWED_IP"
    ELSE IF ~r.guidEnabled THEN "STREAM_STATUS_MACHINE_GUID_DISABLED"
    ELSE IF ~r.guidIp THEN "STREAM_STATUS_NOT_ALLOWED_IP"
    ELSE "OK"

\* the status tag of the first of the eleven checks the request fails
ValidationStatus(r) ==
    IF ~r.hasKey THEN "STREAM_STATUS_NO_API_KEY"
    ELSE IF ~r.hasHost THEN "STREAM_STATUS_NO_HOSTNAME"
    ELSE IF ~r.hasGuid THEN "STREAM_STATUS_NO_MACHINE_GUID"
    ELSE IF ~r.keyUuid THEN "STREAM_STATUS_INVALID_API_KEY"
    ELSE IF ~r.guidUuid THEN "STREAM_STATUS_INVALID_MACHINE_GUID"
    ELSE IF ~stream_conf_is_key_type(r.keyType, "api") THEN "STREAM_STATUS_INVALID_API_KEY"
    ELSE IF ~stream_conf_api_key_is_enabled(r.keyEnabled) THEN "STREAM_STATUS_API_KEY_DISABLED"
    ELSE IF ~stream_conf_api_key_allows_client(r.keyIp) THEN "STREAM_STATUS_NOT_ALLOWED_IP"
    ELSE IF ~stream_conf_is_key_type(r.guidType, "machine")
         THEN "STREAM_STATUS_INVALID_MACHINE_GUID"
    ELSE IF ~stream_conf_api_key_is_enabled(r.guidEnabled)
         THEN "STREAM_STATUS_MACHINE_GUID_DISABLED"
    ELSE IF ~stream_conf_api_key_allows_client(r.guidIp) THEN "STREAM_STATUS_NOT_ALLOWED_IP"
    ELSE "OK"

\* ------------------------------------------------------- the front-end side

\* a request arrives on a connection of the web server
Connect(a) ==
    /\ pc[a] = "idle"
    /\ \E r \in Requests :
         /\ req' = [req EXCEPT ![a] = r]
         /\ w' = [w EXCEPT ![a] = [NewWebClient EXCEPT
                                     !.ofd = IF r.sameFd THEN "fd" ELSE "fd2"]]
    /\ pc' = [pc EXCEPT ![a] = "accept"]
    /\ UNCHANGED <<overlap, ret, status, loc, wire, visited, rpt, sockCloses, hostVars,
                   rateVars, confVars, parseVars, clock, queue>>

\* after the call returned, the web server releases its connection: it closes
\* the socket unless it was told not to or no longer holds it
FrontEndClose(a) ==
    /\ pc[a] = "returned"
    /\ pc' = [pc EXCEPT ![a] = "closed"]
    /\ IF w[a].ifd = "fd" /\ ~w[a].dont_close
       THEN /\ sockCloses' = [sockCloses EXCEPT ![a] = @ + 1]
            /\ w' = [w EXCEPT ![a].ifd = "none", ![a].ofd = "none"]
       ELSE UNCHANGED <<sockCloses, w>>
    /\ UNCHANGED <<overlap, req, ret, status, loc, wire, visited, rpt, hostVars, rateVars,
                   confVars, parseVars, clock, queue>>

\* --------------------------------------- stream_receiver_accept_connection

\* the attempt has entered stream_receiver_accept_connection and not returned
InCall(b) == pc[b] \notin {"off", "idle", "accept", "returned", "closed"}

\* lines 277-404: the service check, the allocation of rpt and the parse
AcceptStart(a) ==
    /\ pc[a] = "accept"
    /\ \E service_running \in BOOLEAN :
         IF ~service_running
         THEN /\ w' = [w EXCEPT ![a] = stream_receiver_response_too_busy_now(w[a])]
              /\ ret' = [ret EXCEPT ![a] = HTTP_RESP_SERVICE_UNAVAILABLE]
              /\ pc' = [pc EXCEPT ![a] = "returned"]
              /\ UNCHANGED rpt
         ELSE /\ rpt' = [rpt EXCEPT ![a] = [NoRpt EXCEPT !.alloc = "live",
                                                         !.last_msg_t = clock,
                                                         !.system_info = "own"]]
              /\ pc' = [pc EXCEPT ![a] = "validate"]
              /\ UNCHANGED <<w, ret>>
    /\ overlap' = [overlap EXCEPT ![a] = {b \in Attempts \ {a} : InCall(b)}]
    /\ UNCHANGED <<req, status, loc, wire, visited, sockCloses, hostVars, rateVars,
                   confVars, parseVars, clock, queue>>

\* a response that tells the peer when it was its IP that was refused
ValidationResponseByCause(st, wc) ==
    IF st = "STREAM_STATUS_NOT_ALLOWED_IP"
    THEN [wc EXCEPT !.body = "ip not allowed"]
    ELSE [wc EXCEPT !.body = START_STREAMING_ERROR_NOT_PERMITTED]

\* lines 415, 425, ..., 526: what each of the eleven rejections leaves in the
\* web_client and returns
ValidationResponse(st, wc) == stream_receiver_response_permission_denied(wc)
ValidationReturn(st) == HTTP_RESP_UNAUTHORIZED

\* the rate limiter placed before the self-connection guard
AfterValidationRateFirst(r, rate) ==
    IF rate > 0 THEN "rate_now"
    ELSE IF r.guid = LocalGuid THEN "self_takeover"
    ELSE "dedup_find"

\* lines 529 and 552: where a request that passed the checks goes next
AfterValidation(r, rate) ==
    IF r.guid = LocalGuid THEN "self_takeover"
    ELSE IF rate > 0 THEN "rate_now"
    ELSE "dedup_find"

\* a validator whose rejections take the slot of the rate limiter
ValidateTakesSlot(a) ==
    /\ pc[a] = "validate"
    /\ IF ValidationStatus(req[a]) # "OK"
       THEN /\ status' = [status EXCEPT ![a] = ValidationStatus(req[a])]
            /\ stream_receiver_free(a)
            /\ w' = [w EXCEPT ![a] = ValidationResponse(ValidationStatus(req[a]), w[a])]
            /\ ret' = [ret EXCEPT ![a] = ValidationReturn(ValidationStatus(req[a]))]
            /\ pc' = [pc EXCEPT ![a] = "returned"]
            /\ last_stream_accepted_t' = clock
            /\ UNCHANGED spinlock
       ELSE /\ pc' = [pc EXCEPT ![a] =
                        AfterValidation(req[a], web_client_streaming_rate_t)]
            /\ UNCHANGED <<status, w, ret, rpt, sockCloses, rateVars>>
    /\ UNCHANGED <<overlap, req, loc, wire, visited, hostVars, confVars, parseVars,
                   clock, queue>>

\* lines 408-529 and 552: the eleven checks, then where a valid request goes
Validate(a) ==
    /\ pc[a] = "validate"
    /\ IF ValidationStatus(req[a]) # "OK"
       THEN /\ status' = [status EXCEPT ![a] = ValidationStatus(req[a])]
            /\ stream_receiver_free(a)
            /\ w' = [w EXCEPT ![a] = ValidationResponse(ValidationStatus(req[a]), w[a])]
            /\ ret' = [ret EXCEPT ![a] = ValidationReturn(ValidationStatus(req[a]))]
            /\ pc' = [pc EXCEPT ![a] = "returned"]
       ELSE /\ pc' = [pc EXCEPT ![a] =
                        AfterValidation(req[a], web_client_streaming_rate_t)]
            /\ UNCHANGED <<status, w, ret, rpt, sockCloses>>
    /\ UNCHANGED <<overlap, req, loc, wire, visited, hostVars, rateVars,
                   confVars, parseVars, clock, queue>>

\* lines 529-535: the request names this node; take the connection over
SelfTakeover(a) ==
    /\ pc[a] = "self_takeover"
    /\ stream_receiver_takeover_web_connection(a)
    /\ status' = [status EXCEPT ![a] = "STREAM_STATUS_LOCALHOST"]
    /\ visited' = [visited EXCEPT ![a] = @ \cup {"takeover"}]
    /\ pc' = [pc EXCEPT ![a] = "self_reply"]
    /\ UNCHANGED <<overlap, req, ret, loc, wire, sockCloses, hostVars, rateVars,
                   confVars, parseVars,
                   clock, queue>>

\* a self-connection path that returns without freeing the descriptor
SelfReplyLeaks(a) ==
    /\ pc[a] = "self_reply"
    /\ wire' = [wire EXCEPT ![a] = Append(@, START_STREAMING_ERROR_SAME_LOCALHOST)]
    /\ ret' = [ret EXCEPT ![a] = HTTP_RESP_OK]
    /\ pc' = [pc EXCEPT ![a] = "returned"]
    /\ UNCHANGED <<overlap, req, w, status, loc, visited, rpt, sockCloses, hostVars,
                   rateVars, confVars, parseVars, clock, queue>>

\* lines 537-549: tell the peer on the raw socket, whether or not the bytes
\* get through, and free the descriptor
SelfReply(a) ==
    /\ pc[a] = "self_reply"
    /\ wire' = [wire EXCEPT ![a] = Append(@, START_STREAMING_ERROR_SAME_LOCALHOST)]
    /\ stream_receiver_free(a)
    /\ ret' = [ret EXCEPT ![a] = HTTP_RESP_OK]
    /\ pc' = [pc EXCEPT ![a] = "returned"]
    /\ UNCHANGED <<overlap, req, w, status, loc, visited, hostVars, rateVars,
                   confVars, parseVars, clock,
                   queue>>

\* lines 552-557: the limiter is on; read the clock, then wait for the spinlock
RateNow(a) ==
    /\ pc[a] = "rate_now"
    /\ loc' = [loc EXCEPT ![a].now = clock]
    /\ visited' = [visited EXCEPT ![a] = @ \cup {"rate"}]
    /\ pc' = [pc EXCEPT ![a] = "rate_lock"]
    /\ UNCHANGED <<overlap, req, w, ret, status, wire, rpt, sockCloses, hostVars, rateVars,
                   confVars, parseVars, clock, queue>>

\* line 557: spinlock_lock
RateLock(a) ==
    /\ pc[a] = "rate_lock"
    /\ spinlock = NULL
    /\ spinlock' = a
    /\ pc' = [pc EXCEPT ![a] = "rate_check"]
    /\ UNCHANGED <<overlap, req, w, ret, status, loc, wire, visited, rpt, sockCloses, hostVars,
                   last_stream_accepted_t, confVars, parseVars, clock, queue>>

\* lines 559-560: the timestamp the comparison of line 562 reads
LazyTimestamp(now, last) == IF last = 0 THEN now ELSE last

\* line 562: the limiter's decision
RateLimited(now, last, rate) == now - LazyTimestamp(now, last) < rate

\* a limiter that does not write the timestamp back
AcceptedTimestampKept(now, last) == last

\* line 576: the timestamp an attempt that passes leaves
AcceptedTimestamp(now, last) == now

\* a limiter that returns the rejection without unlocking the spinlock
RateCheckKeepsLock(a) ==
    /\ pc[a] = "rate_check"
    /\ spinlock = a
    /\ IF RateLimited(loc[a].now, last_stream_accepted_t, web_client_streaming_rate_t)
       THEN /\ spinlock' = a
            /\ last_stream_accepted_t' = LazyTimestamp(loc[a].now, last_stream_accepted_t)
            /\ status' = [status EXCEPT ![a] = "STREAM_STATUS_RATE_LIMIT"]
            /\ stream_receiver_free(a)
            /\ w' = [w EXCEPT ![a] = stream_receiver_response_too_busy_now(w[a])]
            /\ ret' = [ret EXCEPT ![a] = HTTP_RESP_SERVICE_UNAVAILABLE]
            /\ pc' = [pc EXCEPT ![a] = "returned"]
            /\ UNCHANGED visited
       ELSE /\ spinlock' = NULL
            /\ last_stream_accepted_t' =
                   AcceptedTimestamp(loc[a].now, last_stream_accepted_t)
            /\ visited' = [visited EXCEPT ![a] = @ \cup {"rate_passed"}]
            /\ pc' = [pc EXCEPT ![a] = "dedup_find"]
            /\ UNCHANGED <<status, w, ret, rpt, sockCloses>>
    /\ UNCHANGED <<overlap, req, loc, wire, hostVars, confVars, parseVars, clock, queue>>

\* lines 559-577: the check and the update, under the spinlock
RateCheck(a) ==
    /\ pc[a] = "rate_check"
    /\ spinlock = a
    /\ spinlock' = NULL
    /\ IF RateLimited(loc[a].now, last_stream_accepted_t, web_client_streaming_rate_t)
       THEN /\ last_stream_accepted_t' = LazyTimestamp(loc[a].now, last_stream_accepted_t)
            /\ status' = [status EXCEPT ![a] = "STREAM_STATUS_RATE_LIMIT"]
            /\ stream_receiver_free(a)
            /\ w' = [w EXCEPT ![a] = stream_receiver_response_too_busy_now(w[a])]
            /\ ret' = [ret EXCEPT ![a] = HTTP_RESP_SERVICE_UNAVAILABLE]
            /\ pc' = [pc EXCEPT ![a] = "returned"]
            /\ UNCHANGED visited
       ELSE /\ last_stream_accepted_t' =
                   AcceptedTimestamp(loc[a].now, last_stream_accepted_t)
            /\ visited' = [visited EXCEPT ![a] = @ \cup {"rate_passed"}]
            /\ pc' = [pc EXCEPT ![a] = "dedup_find"]
            /\ UNCHANGED <<status, w, ret, rpt, sockCloses>>
    /\ UNCHANGED <<overlap, req, loc, wire, hostVars, confVars, parseVars, clock, queue>>

\* ----------------------------------------------------------- host registry

\* rrdhost_find_by_guid: the host of a machine identity, "none" when unknown
rrdhost_find_by_guid(g) == IF hostState[g] = "none" THEN "none" ELSE g

\* lines 594-597: look the host up under the registry read lock; an archived
\* host counts as none.  Without a host the read lock is dropped at once (611).
DedupFind(a) ==
    /\ pc[a] = "dedup_find"
    /\ visited' = [visited EXCEPT ![a] = @ \cup {"dedup"}]
    /\ LET found == rrdhost_find_by_guid(req[a].guid)
           host == IF found # "none" /\ hostState[found] = "archived" THEN "none" ELSE found
       IN /\ loc' = [loc EXCEPT ![a].host = host]
          /\ IF host = "none"
             THEN /\ pc' = [pc EXCEPT ![a] = "dedup_decide"]
                  /\ UNCHANGED rrdReaders
             ELSE /\ pc' = [pc EXCEPT ![a] = "dedup_lock"]
                  /\ rrdReaders' = rrdReaders \cup {a}
    /\ UNCHANGED <<overlap, req, w, ret, status, wire, rpt, sockCloses, hostState, hostReceiver,
                   receiverLock, rateVars, confVars, parseVars, clock, queue>>

\* line 600: rrdhost_receiver_lock(host)
DedupLock(a) ==
    /\ pc[a] = "dedup_lock"
    /\ receiverLock[loc[a].host] = NULL
    /\ receiverLock' = [receiverLock EXCEPT ![loc[a].host] = a]
    /\ pc' = [pc EXCEPT ![a] = "dedup_read"]
    /\ UNCHANGED <<overlap, req, w, ret, status, loc, wire, visited, rpt, sockCloses, hostState,
                   hostReceiver, rrdReaders, rateVars, confVars, parseVars, clock, queue>>

\* an age threshold one unit too low
ReceiverWorkingOneLess(age) == age < STALE_AGE - 1

\* line 604: a receiver of this age still works
ReceiverWorking(age) == age < STALE_AGE

\* lines 601-611: classify the attached receiver by its age, drop both locks
DedupRead(a) ==
    /\ pc[a] = "dedup_read"
    /\ receiverLock[loc[a].host] = a
    /\ LET h == loc[a].host
           r == hostReceiver[h]
           age == IF r = NULL THEN 0 ELSE clock - rpt[r].last_msg_t
           working == r # NULL /\ ReceiverWorking(age)
           stale == r # NULL /\ ~ReceiverWorking(age)
       IN /\ loc' = [loc EXCEPT ![a].age = age, ![a].receiver_working = working,
                                ![a].receiver_stale = stale]
          /\ visited' = [visited EXCEPT ![a] =
                           IF r # NULL THEN @ \cup {"receiver_seen"} ELSE @]
          /\ pc' = [pc EXCEPT ![a] = IF stale THEN "stop_signal" ELSE "dedup_decide"]
          /\ receiverLock' = [receiverLock EXCEPT ![h] = NULL]
    /\ rrdReaders' = rrdReaders \ {a}
    /\ UNCHANGED <<overlap, req, w, ret, status, wire, rpt, sockCloses, hostState,
                   hostReceiver, rateVars, confVars, parseVars, clock, queue>>

\* stream_receiver_signal_to_stop_and_wait, first half: under the receiver
\* lock, tell the attached receiver, if there still is one, to shut down
StopSignal(a) ==
    /\ pc[a] = "stop_signal"
    /\ receiverLock[loc[a].host] = NULL
    /\ LET r == hostReceiver[loc[a].host]
       IN IF r # NULL
          THEN /\ rpt' = [rpt EXCEPT ![r].shutdown = TRUE]
               /\ visited' = [visited EXCEPT ![a] = @ \cup {"stop_call", "stop_signal"}]
          ELSE /\ visited' = [visited EXCEPT ![a] = @ \cup {"stop_call"}]
               /\ UNCHANGED rpt
    /\ pc' = [pc EXCEPT ![a] = "stop_wait"]
    /\ UNCHANGED <<overlap, req, w, ret, status, loc, wire, sockCloses, hostVars, rateVars,
                   confVars, parseVars, clock, queue>>

\* a caller that ignores what stream_receiver_signal_to_stop_and_wait returned
AfterStopAndWaitIgnored(locals, stopped) == locals

\* lines 613-618: the locals once stream_receiver_signal_to_stop_and_wait returned
AfterStopAndWait(locals, stopped) ==
    IF stopped THEN [locals EXCEPT !.receiver_stale = FALSE] ELSE locals

\* stream_receiver_signal_to_stop_and_wait, second half: it returns true once
\* the host has no receiver, and false when it gives up waiting for that.
\* Lines 613-624: on true the receiver is no longer stale for this attempt.
StopWait(a) ==
    /\ pc[a] = "stop_wait"
    /\ receiverLock[loc[a].host] = NULL
    /\ LET stopped == hostReceiver[loc[a].host] = NULL
       IN /\ loc' = [loc EXCEPT ![a] = AfterStopAndWait(@, stopped)]
          /\ visited' = [visited EXCEPT ![a] = IF stopped THEN @ \cup {"stopped"} ELSE @]
    /\ pc' = [pc EXCEPT ![a] = "dedup_decide"]
    /\ UNCHANGED <<overlap, req, w, ret, status, wire, rpt, sockCloses, hostVars,
                   rateVars, confVars, parseVars, clock, queue>>

\* a dedup check that lets an attempt through when the stale receiver did not stop
AnotherReceiverConnectedWorkingOnly(locals) == locals.receiver_working

\* line 626: another receiver is connected
AnotherReceiverConnected(locals) == locals.receiver_working \/ locals.receiver_stale

\* lines 626-646: reject while another receiver is connected, else go on
DedupDecide(a) ==
    /\ pc[a] = "dedup_decide"
    /\ IF AnotherReceiverConnected(loc[a])
       THEN /\ status' = [status EXCEPT ![a] = "STREAM_STATUS_ALREADY_CONNECTED"]
            /\ w' = [w EXCEPT ![a].body = START_STREAMING_ERROR_ALREADY_STREAMING]
            /\ stream_receiver_free(a)
            /\ ret' = [ret EXCEPT ![a] = HTTP_RESP_CONFLICT]
            /\ pc' = [pc EXCEPT ![a] = "returned"]
       ELSE /\ pc' = [pc EXCEPT ![a] = "takeover"]
            /\ UNCHANGED <<status, w, ret, rpt, sockCloses>>
    /\ UNCHANGED <<overlap, req, loc, wire, visited, hostVars, rateVars,
                   confVars, parseVars, clock, queue>>

\* lines 646-652: the socket becomes the descriptor's
Takeover(a) ==
    /\ pc[a] = "takeover"
    /\ stream_receiver_takeover_web_connection(a)
    /\ visited' = [visited EXCEPT ![a] = @ \cup {"takeover"}]
    /\ pc' = [pc EXCEPT ![a] = "find_host"]
    /\ UNCHANGED <<overlap, req, ret, status, loc, wire, sockCloses, hostVars, rateVars,
                   confVars, parseVars, clock, queue>>

\* stream_send_error_on_taken_over_connection, line 113
stream_send_error_on_taken_over_connection(a, msg) ==
    wire' = [wire EXCEPT ![a] = Append(@, msg)]

\* rrdhost_find_or_create: the state of the host it returns; an unknown host is
\* created and an archived one is revived
rrdhost_find_or_create(g) ==
    IF hostState[g] \in {"none", "archived"} THEN "ready" ELSE hostState[g]

\* a descriptor that keeps its reference to the system_info the host took
AfterHostReturnedKept(r) == r

\* line 156: the host consumed the system_info; the descriptor lets go of it
AfterHostReturned(r) == [r EXCEPT !.system_info = "none"]

\* lines 120-176: find or create the host; give up when there is none, when it
\* is still loading, or when children are not accepted now
FindOrCreate(a) ==
    /\ pc[a] = "find_host"
    /\ \E created \in BOOLEAN, children_should_be_accepted \in BOOLEAN :
         IF ~created
         THEN /\ status' = [status EXCEPT ![a] = "STREAM_STATUS_INTERNAL_SERVER_ERROR"]
              /\ stream_send_error_on_taken_over_connection(
                     a, START_STREAMING_ERROR_INTERNAL_ERROR)
              /\ pc' = [pc EXCEPT ![a] = "not_receiver"]
              /\ UNCHANGED <<hostState, rpt, visited>>
         ELSE /\ hostState' = [hostState EXCEPT ![req[a].guid] =
                                  rrdhost_find_or_create(req[a].guid)]
              /\ rpt' = [rpt EXCEPT ![a] = AfterHostReturned(@)]
              /\ visited' = [visited EXCEPT ![a] = @ \cup {"host"}]
              /\ IF hostState'[req[a].guid] = "pending" \/ ~children_should_be_accepted
                 THEN /\ status' = [status EXCEPT ![a] =
                                      "STREAM_STATUS_INITIALIZATION_IN_PROGRESS"]
                      /\ stream_send_error_on_taken_over_connection(
                             a, START_STREAMING_ERROR_INITIALIZATION)
                      /\ pc' = [pc EXCEPT ![a] = "not_receiver"]
                 ELSE /\ pc' = [pc EXCEPT ![a] = "set_receiver"]
                      /\ UNCHANGED <<status, wire>>
    /\ UNCHANGED <<overlap, req, w, ret, loc, sockCloses, hostReceiver,
                   receiverLock, rrdReaders, rateVars, confVars, parseVars, clock, queue>>

\* rrdhost_set_receiver attaches only to a host that has no receiver
rrdhost_set_receiver_allowed(g) == hostReceiver[g] = NULL

\* rrdhost_set_receiver, when it attaches: host->receiver and rpt->host
rrdhost_set_receiver(g, d) ==
    /\ hostReceiver' = [hostReceiver EXCEPT ![g] = d]
    /\ rpt' = [rpt EXCEPT ![d].host = g]

\* rrdhost_clear_receiver: detach, unless the host is served by another one
rrdhost_clear_receiver(d) ==
    hostReceiver' = [g \in Guids |->
                       IF rpt[d].host = g /\ hostReceiver[g] = d THEN NULL
                       ELSE hostReceiver[g]]

\* a handshake that tells the peer nothing when the host has a receiver
SetReceiverSilent(a) ==
    /\ pc[a] = "set_receiver"
    /\ receiverLock[req[a].guid] = NULL
    /\ visited' = [visited EXCEPT ![a] = @ \cup {"attach"}]
    /\ IF rrdhost_set_receiver_allowed(req[a].guid)
       THEN /\ rrdhost_set_receiver(req[a].guid, a)
            /\ pc' = [pc EXCEPT ![a] = "send_reply"]
            /\ UNCHANGED status
       ELSE /\ status' = [status EXCEPT ![a] = "STREAM_STATUS_DUPLICATE_RECEIVER"]
            /\ pc' = [pc EXCEPT ![a] = "not_receiver"]
            /\ UNCHANGED <<hostReceiver, rpt>>
    /\ UNCHANGED <<overlap, req, w, ret, wire, loc, sockCloses, hostState, receiverLock,
                   rrdReaders, rateVars, confVars, parseVars, clock, queue>>

\* a handshake that goes on whether or not rrdhost_set_receiver attached
SetReceiverUnchecked(a) ==
    /\ pc[a] = "set_receiver"
    /\ receiverLock[req[a].guid] = NULL
    /\ visited' = [visited EXCEPT ![a] = @ \cup {"attach"}]
    /\ IF rrdhost_set_receiver_allowed(req[a].guid)
       THEN rrdhost_set_receiver(req[a].guid, a)
       ELSE UNCHANGED <<hostReceiver, rpt>>
    /\ pc' = [pc EXCEPT ![a] = "send_reply"]
    /\ UNCHANGED <<overlap, req, w, ret, status, wire, loc, sockCloses, hostState,
                   receiverLock, rrdReaders, rateVars, confVars, parseVars, clock, queue>>

\* lines 178-186: attach to the host, under its receiver lock
SetReceiver(a) ==
    /\ pc[a] = "set_receiver"
    /\ receiverLock[req[a].guid] = NULL
    /\ visited' = [visited EXCEPT ![a] = @ \cup {"attach"}]
    /\ IF rrdhost_set_receiver_allowed(req[a].guid)
       THEN /\ rrdhost_set_receiver(req[a].guid, a)
            /\ pc' = [pc EXCEPT ![a] = "send_reply"]
            /\ UNCHANGED <<status, wire>>
       ELSE /\ status' = [status EXCEPT ![a] = "STREAM_STATUS_DUPLICATE_RECEIVER"]
            /\ stream_send_error_on_taken_over_connection(
                   a, START_STREAMING_ERROR_ALREADY_STREAMING)
            /\ pc' = [pc EXCEPT ![a] = "not_receiver"]
            /\ UNCHANGED <<hostReceiver, rpt>>
    /\ UNCHANGED <<overlap, req, w, ret, loc, sockCloses, hostState, receiverLock, rrdReaders,
                   rateVars, confVars, parseVars, clock, queue>>

\* a handshake that does not look at how many bytes were sent
SendReplyUnchecked(a) ==
    /\ pc[a] = "send_reply"
    /\ wire' = [wire EXCEPT ![a] = Append(@, START_STREAMING_PROMPT)]
    /\ \E sent \in BOOLEAN :
         visited' = [visited EXCEPT ![a] = IF sent THEN @ \cup {"reply_sent"} ELSE @]
    /\ pc' = [pc EXCEPT ![a] = "enqueue"]
    /\ UNCHANGED <<overlap, req, w, ret, status, loc, rpt, sockCloses, hostVars, rateVars,
                   confVars, parseVars, clock, queue>>

\* lines 206-266: send the handshake reply; a short write drops the connection
SendReply(a) ==
    /\ pc[a] = "send_reply"
    /\ wire' = [wire EXCEPT ![a] = Append(@, START_STREAMING_PROMPT)]
    /\ \E sent \in BOOLEAN :
         IF sent
         THEN /\ pc' = [pc EXCEPT ![a] = "enqueue"]
              /\ visited' = [visited EXCEPT ![a] = @ \cup {"reply_sent"}]
              /\ UNCHANGED status
         ELSE /\ status' = [status EXCEPT ![a] = "STREAM_STATUS_CANT_REPLY"]
              /\ pc' = [pc EXCEPT ![a] = "clear_receiver"]
              /\ UNCHANGED visited
    /\ UNCHANGED <<overlap, req, w, ret, loc, rpt, sockCloses, hostVars, rateVars,
                   confVars, parseVars, clock, queue>>

\* a short write after which the host is left pointing at the descriptor
ClearReceiverSkipped(a) ==
    /\ pc[a] = "clear_receiver"
    /\ pc' = [pc EXCEPT ![a] = "not_receiver"]
    /\ UNCHANGED <<overlap, req, w, ret, status, loc, wire, visited, rpt, sockCloses,
                   hostVars, rateVars, confVars, parseVars, clock, queue>>

\* line 264: rrdhost_clear_receiver(rpt) after the short write
ClearReceiver(a) ==
    /\ pc[a] = "clear_receiver"
    /\ receiverLock[rpt[a].host] = NULL
    /\ rrdhost_clear_receiver(a)
    /\ pc' = [pc EXCEPT ![a] = "not_receiver"]
    /\ UNCHANGED <<overlap, req, w, ret, status, loc, wire, visited, rpt, sockCloses, hostState,
                   receiverLock, rrdReaders, rateVars, confVars, parseVars, clock, queue>>

\* a caller that reports a conflict when send_first_response returned false
NotReceiverConflict(a) ==
    /\ pc[a] = "not_receiver"
    /\ stream_receiver_free(a)
    /\ ret' = [ret EXCEPT ![a] = HTTP_RESP_CONFLICT]
    /\ pc' = [pc EXCEPT ![a] = "returned"]
    /\ UNCHANGED <<overlap, req, w, status, loc, wire, visited, hostVars, rateVars,
                   confVars, parseVars,
                   clock, queue>>

\* a caller that queues the receiver whatever send_first_response returned
NotReceiverQueued(a) ==
    /\ pc[a] = "not_receiver"
    /\ status' = [status EXCEPT ![a] = "STREAM_STATUS_CONNECTED"]
    /\ queue' = queue \cup {a}
    /\ visited' = [visited EXCEPT ![a] = @ \cup {"queue"}]
    /\ ret' = [ret EXCEPT ![a] = HTTP_RESP_OK]
    /\ pc' = [pc EXCEPT ![a] = "returned"]
    /\ UNCHANGED <<overlap, req, w, loc, wire, rpt, sockCloses, hostVars, rateVars,
                   confVars, parseVars,
                   clock>>

\* lines 675-681: send_first_response returned false
NotReceiver(a) ==
    /\ pc[a] = "not_receiver"
    /\ stream_receiver_free(a)
    /\ ret' = [ret EXCEPT ![a] = HTTP_RESP_OK]
    /\ pc' = [pc EXCEPT ![a] = "returned"]
    /\ UNCHANGED <<overlap, req, w, status, loc, wire, visited, hostVars, rateVars,
                   confVars, parseVars,
                   clock, queue>>

\* lines 654-673 and 681: the receiver goes to a stream thread
Enqueue(a) ==
    /\ pc[a] = "enqueue"
    /\ status' = [status EXCEPT ![a] = "STREAM_STATUS_CONNECTED"]
    /\ queue' = queue \cup {a}
    /\ visited' = [visited EXCEPT ![a] = @ \cup {"queue"}]
    /\ ret' = [ret EXCEPT ![a] = HTTP_RESP_OK]
    /\ pc' = [pc EXCEPT ![a] = "returned"]
    /\ UNCHANGED <<overlap, req, w, loc, wire, rpt, sockCloses, hostVars, rateVars,
                   confVars, parseVars,
                   clock>>

\* ------------------------------------------------------- the stream threads

\* a message of the child arrives at its receiver
WorkerMessage(d) ==
    /\ d \in queue
    /\ ~rpt[d].shutdown
    /\ rpt[d].last_msg_t # clock
    /\ rpt' = [rpt EXCEPT ![d].last_msg_t = clock]
    /\ UNCHANGED <<attemptVars, sockCloses, hostVars, rateVars, confVars, parseVars, clock, queue>>

\* the receiver ends (the child went away, or it was told to shut down): it
\* detaches from its host under the receiver lock and is freed
WorkerExit(d) ==
    /\ d \in queue
    /\ receiverLock[rpt[d].host] = NULL
    /\ rrdhost_clear_receiver(d)
    /\ stream_receiver_free(d)
    /\ queue' = queue \ {d}
    /\ UNCHANGED <<attemptVars, hostState, receiverLock, rrdReaders, rateVars,
                   confVars, parseVars, clock>>

\* the host finished loading its contexts
ContextLoaded(g) ==
    /\ hostState[g] = "pending"
    /\ hostState' = [hostState EXCEPT ![g] = "ready"]
    /\ UNCHANGED <<attemptVars, rpt, sockCloses, hostReceiver, receiverLock,
                   rrdReaders, rateVars, confVars, parseVars, clock, queue>>

\* ------------------------------------------------------------ specification

Next ==
    \/ Tick
    \/ \E a \in Attempts :
         \/ Connect(a) \/ FrontEndClose(a)
         \/ AcceptStart(a) \/ Validate(a)
         \/ SelfTakeover(a) \/ SelfReply(a)
         \/ RateNow(a) \/ RateLock(a) \/ RateCheck(a)
         \/ DedupFind(a) \/ DedupLock(a) \/ DedupRead(a)
         \/ StopSignal(a) \/ StopWait(a) \/ DedupDecide(a)
         \/ Takeover(a) \/ FindOrCreate(a) \/ SetReceiver(a)
         \/ SendReply(a) \/ ClearReceiver(a) \/ NotReceiver(a) \/ Enqueue(a)
    \/ \E d \in Desc : WorkerMessage(d) \/ WorkerExit(d)
    \/ \E g \in Guids : ContextLoaded(g)

Spec == Init /\ [][Next]_vars

\* ------------------------------------------------ the calls run to their end

\* a step of the call of the attempt
AttemptStep(a) ==
    \/ AcceptStart(a) \/ Validate(a)
    \/ SelfTakeover(a) \/ SelfReply(a)
    \/ RateNow(a) \/ RateLock(a) \/ RateCheck(a)
    \/ DedupFind(a) \/ DedupLock(a) \/ DedupRead(a)
    \/ StopSignal(a) \/ StopWait(a) \/ DedupDecide(a)
    \/ Takeover(a) \/ FindOrCreate(a) \/ SetReceiver(a)
    \/ SendReply(a) \/ ClearReceiver(a) \/ NotReceiver(a) \/ Enqueue(a)

\* the limiter is on; the host of g1 is loading its contexts, or is served by
\* a receiver that is STALE_AGE old
InitLive ==
    /\ InitShared
    /\ InitAttempts
    /\ web_server_mode = "multi-threaded"
    /\ web_client_streaming_rate_t = RateInterval
    /\ last_stream_accepted_t = ClockStart - RateInterval
    /\ \/ hostState["g1"] = "pending"
       \/ rpt[OldReceiver].last_msg_t = ClockStart - STALE_AGE

\* the thread that serves a call keeps running it: the sends and the wait for
\* a stale receiver are bounded, and a lock that is free is granted
SpecLive == InitLive /\ [][Next]_vars /\ \A a \in Attempts : WF_vars(AttemptStep(a))

\* ---------------------------------------- the validator and the limiter alone

\* the steps of an attempt up to the end of the rate limiter
NextValidate ==
    \/ Tick
    \/ \E a \in Attempts :
         \/ FrontEndClose(a)
         \/ AcceptStart(a) \/ Validate(a)
         \/ SelfTakeover(a) \/ SelfReply(a)
         \/ RateNow(a) \/ RateLock(a) \/ RateCheck(a)

\* no host is known and no receiver runs
InitNoHosts ==
    /\ InitShared
    /\ hostState = [g \in Guids |-> "none"]
    /\ queue = {}

\* one attempt, serving any request
InitValidate ==
    /\ InitNoHosts
    /\ InitWebClients
    /\ pc = [a \in Attempts |-> IF a = 1 THEN "accept" ELSE "off"]
    /\ \E r \in AllRequests : req = [a \in Attempts |-> IF a = 1 THEN r ELSE NoRequest]

SpecValidate == InitValidate /\ [][NextValidate]_vars

\* the requests that fail exactly one of the eleven checks
SingleFaultRequests ==
    {[GoodRequest("g1", TRUE) EXCEPT !.hasKey = FALSE],
     [GoodRequest("g1", TRUE) EXCEPT !.hasHost = FALSE],
     [GoodRequest("g1", TRUE) EXCEPT !.hasGuid = FALSE],
     [GoodRequest("g1", TRUE) EXCEPT !.keyUuid = FALSE],
     [GoodRequest("g1", TRUE) EXCEPT !.guidUuid = FALSE],
     [GoodRequest("g1", TRUE) EXCEPT !.keyType = "machine"],
     [GoodRequest("g1", TRUE) EXCEPT !.keyEnabled = FALSE],
     [GoodRequest("g1", TRUE) EXCEPT !.keyIp = FALSE],
     [GoodRequest("g1", TRUE) EXCEPT !.guidType = "api"],
     [GoodRequest("g1", TRUE) EXCEPT !.guidEnabled = FALSE],
     [GoodRequest("g1", TRUE) EXCEPT !.guidIp = FALSE]}

\* every attempt serves a request that fails one check, or a valid one
InitReject ==
    /\ InitNoHosts
    /\ web_server_mode = "multi-threaded"
    /\ InitWebClients
    /\ pc = [a \in Attempts |-> "accept"]
    /\ req \in [Attempts -> SingleFaultRequests \cup {GoodRequest("g1", TRUE),
                                                      GoodRequest(LocalGuid, TRUE)}]

SpecReject == InitReject /\ [][NextValidate]_vars

\* ------------------------------------ a refused request among admitted ones

\* the first attempt serves a request that fails one check, the others a valid
\* one; the hosts, the receiver and the limiter are as in Init
InitFrame ==
    /\ InitShared
    /\ InitWebClients
    /\ pc = [a \in Attempts |-> "accept"]
    /\ \E r \in SingleFaultRequests :
       \E v \in {GoodRequest("g1", TRUE), GoodRequest(LocalGuid, TRUE)} :
          req = [a \in Attempts |-> IF a = 1 THEN r ELSE v]

\* the steps of the calls, of the web server after them, and of the receivers
NextFrame ==
    \/ Tick
    \/ \E a \in Attempts :
         \/ FrontEndClose(a)
         \/ AcceptStart(a) \/ Validate(a)
         \/ SelfTakeover(a) \/ SelfReply(a)
         \/ RateNow(a) \/ RateLock(a) \/ RateCheck(a)
         \/ DedupFind(a) \/ DedupLock(a) \/ DedupRead(a)
         \/ StopSignal(a) \/ StopWait(a) \/ DedupDecide(a)
         \/ Takeover(a) \/ FindOrCreate(a) \/ SetReceiver(a)
         \/ SendReply(a) \/ ClearReceiver(a) \/ NotReceiver(a) \/ Enqueue(a)
    \/ \E d \in Desc : WorkerMessage(d) \/ WorkerExit(d)
    \/ \E g \in Guids : ContextLoaded(g)

SpecFrame == InitFrame /\ [][NextFrame]_vars

\* ------------------------------------------------- the query-string parser

\* the names a pair of the query string may carry; "" is a pair without a name
QueryNames ==
    {"key", "hostname", "registry_hostname", "machine_guid", "update_every", "os",
     "timezone", "abbrev_timezone", "utc_offset", "hops", "ml_capable", "ml_enabled",
     "mc_version", "ver", "NETDATA_SYSTEM_OS_NAME", "NETDATA_SYSTEM_OS_ID",
     "NETDATA_PROTOCOL_VERSION", "junk", ""}

\* the values of a pair; "" is a pair without a value
QueryValues == {"", "x", "2", "3", "4"}

\* the query strings of up to MaxFields pairs, split at "&" and at "="
Queries == UNION {[1..n -> QueryNames \X QueryValues] : n \in 0..MaxFields}

\* strtoul(value, NULL, 0) and strtol(value, NULL, 0): the number the text
\* starts with, 0 when it starts with none
strtoul(value) ==
    CASE value = "2" -> 2
      [] value = "3" -> 3
      [] value = "4" -> 4
      [] OTHER -> 0

\* (caps & cap) != 0, for a cap of one bit
HasCap(caps, cap) == (caps \div cap) % 2 = 1

\* the compatibility table: the oldest tier up to version 1, then one tier
\* per version, and every later version as the newest tier
convert_stream_version_to_capabilities(version) ==
    IF version <= 1 THEN STREAM_CAP_V1
    ELSE IF version = 2 THEN STREAM_CAP_V2
    ELSE IF version = 3 THEN STREAM_CAP_VN + STREAM_CAP_LZ4
    ELSE STREAM_CAP_VCAPS + STREAM_CAP_LZ4 + STREAM_CAP_ZSTD

\* lines 359-375: the names of an old child, mapped to the current ones
LegacyAlias(name) ==
    CASE name = "NETDATA_SYSTEM_OS_NAME" -> "NETDATA_HOST_OS_NAME"
      [] name = "NETDATA_SYSTEM_OS_ID" -> "NETDATA_HOST_OS_ID"
      [] name = "NETDATA_SYSTEM_OS_ID_LIKE" -> "NETDATA_HOST_OS_ID_LIKE"
      [] name = "NETDATA_SYSTEM_OS_VERSION" -> "NETDATA_HOST_OS_VERSION"
      [] name = "NETDATA_SYSTEM_OS_VERSION_ID" -> "NETDATA_HOST_OS_VERSION_ID"
      [] name = "NETDATA_SYSTEM_OS_DETECTION" -> "NETDATA_HOST_OS_DETECTION"
      [] OTHER -> name

\* a test that takes every capability set for the sentinel
VersionUnsetAlways(caps) == TRUE

\* lines 354, 377 and 390: rpt->capabilities & STREAM_CAP_INVALID
VersionUnset(caps) == HasCap(caps, STREAM_CAP_INVALID)

\* lines 315-387: what one name=value pair does to the descriptor
ParsedField(r, name, value) ==
    IF name = "key" /\ r.key = NoString THEN [r EXCEPT !.key = value]
    ELSE IF name = "hostname" /\ r.hostname = NoString THEN [r EXCEPT !.hostname = value]
    ELSE IF name = "registry_hostname" /\ r.registry_hostname = NoString
    THEN [r EXCEPT !.registry_hostname = value]
    ELSE IF name = "machine_guid" /\ r.machine_guid = NoString
    THEN [r EXCEPT !.machine_guid = value]
    ELSE IF name = "update_every" THEN [r EXCEPT !.update_every = strtoul(value)]
    ELSE IF name = "os" /\ r.os = NoString THEN [r EXCEPT !.os = value]
    ELSE IF name = "timezone" /\ r.timezone = NoString THEN [r EXCEPT !.timezone = value]
    ELSE IF name = "abbrev_timezone" /\ r.abbrev_timezone = NoString
    THEN [r EXCEPT !.abbrev_timezone = value]
    ELSE IF name = "utc_offset" THEN [r EXCEPT !.utc_offset = strtoul(value)]
    ELSE IF name = "hops" THEN [r EXCEPT !.hops = strtoul(value),
                                        !.info_hops = strtoul(value)]
    ELSE IF name = "ml_capable" THEN [r EXCEPT !.ml_capable = strtoul(value)]
    ELSE IF name = "ml_enabled" THEN [r EXCEPT !.ml_enabled = strtoul(value)]
    ELSE IF name = "mc_version" THEN [r EXCEPT !.mc_version = strtoul(value)]
    ELSE IF name = "ver" /\ VersionUnset(r.capabilities)
    THEN [r EXCEPT !.capabilities =
                      convert_stream_version_to_capabilities(strtoul(value))]
    ELSE [r EXCEPT
            !.capabilities =
                IF name = "NETDATA_PROTOCOL_VERSION" /\ VersionUnset(@)
                THEN convert_stream_version_to_capabilities(1)
                ELSE @,
            !.info_calls = Append(@, <<LegacyAlias(name), value>>)]

\* lines 307-388: one turn of the loop; a pair without a name or without a
\* value is skipped
ParseField ==
    /\ parse_pc = "parse"
    /\ decoded_query_string # <<>>
    /\ LET name == Head(decoded_query_string)[1]
           value == Head(decoded_query_string)[2]
       IN parsed' = IF name = "" \/ value = "" THEN parsed
                    ELSE ParsedField(parsed, name, value)
    /\ decoded_query_string' = Tail(decoded_query_string)
    /\ UNCHANGED <<query, initial_response, parse_pc>>
    /\ UNCHANGED <<attemptVars, rpt, sockCloses, hostVars, rateVars, confVars, clock, queue>>

\* lines 390-392: no version was supplied, assume version 0
ParseEnd ==
    /\ parse_pc = "parse"
    /\ decoded_query_string = <<>>
    /\ parsed' = IF VersionUnset(parsed.capabilities)
                 THEN [parsed EXCEPT !.capabilities =
                                        convert_stream_version_to_capabilities(0)]
                 ELSE parsed
    /\ parse_pc' = "select"
    /\ UNCHANGED <<query, decoded_query_string, initial_response>>
    /\ UNCHANGED <<attemptVars, rpt, sockCloses, hostVars, rateVars, confVars, clock, queue>>

\* the capabilities that differ from caps in the compression bits only, with
\* no compression bit added
SelectedCompressions(caps) ==
    {c \in 0..(STREAM_CAP_INVALID - 1) :
        /\ c % STREAM_CAP_LZ4 = caps % STREAM_CAP_LZ4
        /\ HasCap(c, STREAM_CAP_LZ4) => HasCap(caps, STREAM_CAP_LZ4)
        /\ HasCap(c, STREAM_CAP_ZSTD) => HasCap(caps, STREAM_CAP_ZSTD)}

\* line 206: the compression algorithm is selected among those offered
SelectCompression ==
    /\ parse_pc = "select"
    /\ \E c \in SelectedCompressions(parsed.capabilities) :
         parsed' = [parsed EXCEPT !.capabilities = c]
    /\ parse_pc' = "reply"
    /\ UNCHANGED <<query, decoded_query_string, initial_response>>
    /\ UNCHANGED <<attemptVars, rpt, sockCloses, hostVars, rateVars, confVars, clock, queue>>

START_STREAMING_PROMPT_V1 == "Hit me baby, push them over..."
START_STREAMING_PROMPT_V2 == "Hit me baby, push them over and bring the host labels..."
START_STREAMING_PROMPT_VN == "Hit me baby, push them over with the version="

\* the stream version of a capability set of the VN tier
stream_capabilities_to_vn(caps) == IF HasCap(caps, STREAM_CAP_LZ4) THEN 4 ELSE 3

\* a reply that looks for the oldest tier first
InitialResponseOldestFirst(caps) ==
    IF HasCap(caps, STREAM_CAP_V1) THEN <<START_STREAMING_PROMPT_V1>>
    ELSE IF HasCap(caps, STREAM_CAP_V2) THEN <<START_STREAMING_PROMPT_V2>>
    ELSE IF HasCap(caps, STREAM_CAP_VN)
    THEN <<START_STREAMING_PROMPT_VN, stream_capabilities_to_vn(caps)>>
    ELSE <<START_STREAMING_PROMPT_VN, caps>>

\* lines 211-226: the text of the handshake reply, the prompt and the number
\* printed after it
InitialResponse(caps) ==
    IF HasCap(caps, STREAM_CAP_VCAPS) THEN <<START_STREAMING_PROMPT_VN, caps>>
    ELSE IF HasCap(caps, STREAM_CAP_VN)
    THEN <<START_STREAMING_PROMPT_VN, stream_capabilities_to_vn(caps)>>
    ELSE IF HasCap(caps, STREAM_CAP_V2) THEN <<START_STREAMING_PROMPT_V2>>
    ELSE <<START_STREAMING_PROMPT_V1>>

\* lines 210-226: the reply is written to the buffer
Reply ==
    /\ parse_pc = "reply"
    /\ initial_response' = InitialResponse(parsed.capabilities)
    /\ parse_pc' = "send"
    /\ UNCHANGED <<query, decoded_query_string, parsed>>
    /\ UNCHANGED <<attemptVars, rpt, sockCloses, hostVars, rateVars, confVars, clock, queue>>

\* the pipeline at rest: no attempt, no host, the limiter off
InitNoAttempts ==
    /\ InitNoHosts
    /\ web_server_mode = "multi-threaded"
    /\ web_client_streaming_rate_t = 0
    /\ pc = [a \in Attempts |-> "off"]
    /\ req = [a \in Attempts |-> NoRequest]
    /\ w = [a \in Attempts |-> NewWebClient]
    /\ ret = [a \in Attempts |-> "none"]
    /\ status = [a \in Attempts |-> "none"]
    /\ loc = [a \in Attempts |-> NoLocals]
    /\ wire = [a \in Attempts |-> <<>>]
    /\ visited = [a \in Attempts |-> {}]
    /\ overlap = [a \in Attempts |-> {}]

\* a descriptor was allocated and any query string is about to be parsed
InitParse ==
    /\ InitNoAttempts
    /\ query \in Queries
    /\ decoded_query_string = query
    /\ parsed = NoParsed
    /\ initial_response = <<>>
    /\ parse_pc = "parse"

NextParse == ParseField \/ ParseEnd \/ SelectCompression \/ Reply

SpecParse == InitParse /\ [][NextParse]_vars

\* the parse is over with any capability set but the sentinel
InitReply ==
    /\ InitNoAttempts
    /\ query = <<>>
    /\ decoded_query_string = <<>>
    /\ \E caps \in 0..(STREAM_CAP_INVALID - 1) :
         parsed = [NoParsed EXCEPT !.capabilities = caps]
    /\ initial_response = <<>>
    /\ parse_pc = "select"

NextReply == SelectCompression \/ Reply

SpecReply == InitReply /\ [][NextReply]_vars

\* ------------------------------------------------------------------- properties

\* the machine identity a descriptor serves
Serving(d) == IF d = OldReceiver THEN "g1" ELSE req[d].guid

\* the descriptor went through a successful rrdhost_set_receiver and has not
\* been detached since: it is in the handshake reply or with a stream thread
HoldsAttachment(d) ==
    /\ rpt[d].alloc = "live"
    /\ \/ d \in queue
       \/ d \in Attempts /\ pc[d] \in {"send_reply", "enqueue", "clear_receiver"}

Finished(a) == pc[a] \in {"returned", "closed"}

\* the attempt was dispatched: attached to its host and handed to a stream thread
Dispatched(a) == "queue" \in visited[a]

\* the two attempts were inside stream_receiver_accept_connection together
Concurrent(a, b) == a # b /\ (b \in overlap[a] \/ a \in overlap[b])

\* C1: every descriptor that holds an attachment is the one its host points
\* to, so a host never has two attached descriptors, and an attach never
\* succeeds while another descriptor is attached to the host.
C1_SingleAttachment ==
    /\ \A d \in Desc : HoldsAttachment(d) => hostReceiver[Serving(d)] = d
    /\ \A g \in Guids : Cardinality({d \in Desc : HoldsAttachment(d) /\ Serving(d) = g}) <= 1

\* an attach was refused because another attempt's descriptor was attached
C1_Witness ==
    \E a \in Attempts : \E b \in Attempts \ {a} :
        /\ status[a] = "STREAM_STATUS_DUPLICATE_RECEIVER"
        /\ hostReceiver[req[a].guid] = b
        /\ HoldsAttachment(b)

\* C2 as stated: of two concurrent attempts for one machine identity, against
\* a host without a receiver, at most one is ever dispatched.
C2_AtMostOneDispatched ==
    \A a \in Attempts : \A b \in Attempts \ {a} :
        (/\ req[a].guid \in Guids
         /\ req[a].guid = req[b].guid
         /\ Concurrent(a, b)
         /\ rpt[OldReceiver].alloc = "none")
        => ~(Dispatched(a) /\ Dispatched(b))

\* C2, amended: a dispatched attempt is attached to its host and queued; two
\* attempts for one machine identity are never dispatched at the same time
\* (when both were dispatched, one of the receivers has ended and is freed);
\* an attempt that ends without being dispatched has its descriptor freed
\* once and is not the host's receiver.
C2_OneDispatchedAtATime ==
    \A a \in Attempts :
        req[a].guid \in Guids =>
            /\ a \in queue => Dispatched(a) /\ hostReceiver[req[a].guid] = a
            /\ Dispatched(a) /\ a \notin queue => rpt[a].alloc = "freed"
            /\ \A b \in Attempts \ {a} :
                 req[b].guid = req[a].guid /\ Dispatched(a) /\ Dispatched(b)
                 => rpt[a].alloc = "freed" \/ rpt[b].alloc = "freed"
            /\ Finished(a) /\ ~Dispatched(a) /\ rpt[a].alloc # "none"
               => /\ rpt[a].alloc = "freed"
                  /\ rpt[a].frees = 1
                  /\ status[a] # "STREAM_STATUS_CONNECTED"
                  /\ hostReceiver[req[a].guid] # a

\* two concurrent attempts for one identity, no receiver before them: one runs
\* with a stream thread, the other was refused and freed
C2_Witness ==
    \E a \in Attempts : \E b \in Attempts \ {a} :
        /\ req[a].guid \in Guids /\ req[a].guid = req[b].guid
        /\ Concurrent(a, b)
        /\ rpt[OldReceiver].alloc = "none"
        /\ a \in queue /\ hostReceiver[req[a].guid] = a
        /\ Finished(b) /\ ~Dispatched(b)
        /\ status[b] = "STREAM_STATUS_DUPLICATE_RECEIVER"
        /\ rpt[b].alloc = "freed"

\* the dedup check of the attempt read an attached receiver younger than STALE_AGE
SawWorkingReceiver(a) == "receiver_seen" \in visited[a] /\ loc[a].age < STALE_AGE

\* the dedup check of the attempt read an attached receiver of STALE_AGE or older
SawStaleReceiver(a) == "receiver_seen" \in visited[a] /\ loc[a].age >= STALE_AGE

\* C3: an attempt whose dedup check read an attached receiver younger than
\* STALE_AGE sends no stop signal, takes no transport over, never attaches, and
\* ends with HTTP_RESP_CONFLICT and the already-streaming body, its descriptor
\* freed.
C3_WorkingReceiverRejects ==
    \A a \in Attempts :
        SawWorkingReceiver(a) =>
            /\ pc[a] \in {"dedup_decide", "returned", "closed"}
            /\ visited[a] \cap {"stop_call", "stop_signal", "stopped", "takeover",
                                "attach", "queue"} = {}
            /\ rpt[a].fd = "none"
            /\ w[a].ssl = "conn"
            /\ \A g \in Guids : hostReceiver[g] # a
            /\ Finished(a) =>
                 /\ ret[a] = HTTP_RESP_CONFLICT
                 /\ status[a] = "STREAM_STATUS_ALREADY_CONNECTED"
                 /\ rpt[a].alloc = "freed" /\ rpt[a].frees = 1
            /\ pc[a] = "returned" => w[a].body = START_STREAMING_ERROR_ALREADY_STREAMING

\* two concurrent attempts were both rejected and the receiver they found is
\* still the host's
C3_Witness ==
    \E a \in Attempts : \E b \in Attempts \ {a} :
        /\ Concurrent(a, b)
        /\ SawWorkingReceiver(a) /\ SawWorkingReceiver(b)
        /\ loc[a].age = STALE_AGE - 1
        /\ ret[a] = HTTP_RESP_CONFLICT /\ ret[b] = HTTP_RESP_CONFLICT
        /\ hostReceiver["g1"] = OldReceiver /\ HoldsAttachment(OldReceiver)

\* the attempt is between the eviction of a stale receiver and its own attach
BetweenEvictionAndAttach(a) ==
    /\ "stopped" \in visited[a]
    /\ pc[a] \in {"dedup_decide", "takeover", "find_host", "set_receiver"}

FrontEndHolds(a) == w[a].ifd = "fd" /\ ~w[a].dont_close

\* the descriptor holds the socket of the attempt
DescriptorHolds(a) == rpt[a].fd = "fd"

\* C5: the socket of an attempt is never held by both the web_client and the
\* descriptor; while it is open exactly one of them holds it, it is closed at
\* most once, and then nobody holds it; a takeover happens at most once, and
\* after it the web_client has no encryption context and cannot close the socket.
C5_OneTransportOwner ==
    \A a \in Attempts :
        /\ ~(FrontEndHolds(a) /\ DescriptorHolds(a))
        /\ sockCloses[a] <= 1
        /\ sockCloses[a] = 0 => FrontEndHolds(a) \/ DescriptorHolds(a)
        /\ sockCloses[a] = 1 => ~FrontEndHolds(a) /\ ~DescriptorHolds(a)
        /\ pc[a] \in {"self_takeover", "takeover"} => "takeover" \notin visited[a]
        /\ "takeover" \in visited[a] =>
             /\ w[a].ssl = "unset" /\ w[a].dead
             /\ ~FrontEndHolds(a)
             /\ w[a].ifd = "none" \/ w[a].dont_close
        /\ "takeover" \notin visited[a] => ~DescriptorHolds(a) /\ w[a].ssl = "conn"

\* after a takeover in static-threaded mode the web server released the
\* connection and the descriptor still holds the open socket
C5_Witness ==
    \E a \in Attempts :
        /\ pc[a] = "closed"
        /\ web_server_mode = "static-threaded"
        /\ w[a].ifd = "fd"
        /\ DescriptorHolds(a) /\ sockCloses[a] = 0
        /\ a \in queue

\* the request passes none, or not all, of the eleven checks of lines 408-527
FailsSomeCheck(r) ==
    ~(/\ r.hasKey /\ r.hasHost /\ r.hasGuid
      /\ r.keyUuid /\ r.guidUuid
      /\ r.keyType = "api" /\ r.keyEnabled /\ r.keyIp
      /\ r.guidType = "machine" /\ r.guidEnabled /\ r.guidIp)

\* the call got past the service check and allocated its descriptor
Allocated(a) == rpt[a].alloc # "none"

\* C6: a request that fails any of the eleven checks never gets past them; the
\* call returns HTTP_RESP_UNAUTHORIZED with the not-permitted body, the
\* descriptor is freed once, and the transport stays with the web_client.
C6_GenericDenial ==
    \A a \in Attempts :
        FailsSomeCheck(req[a]) /\ Allocated(a) =>
            /\ pc[a] \in {"validate", "returned", "closed"}
            /\ visited[a] = {}
            /\ wire[a] = <<>>
            /\ rpt[a].fd = "none"
            /\ w[a].ssl = "conn" /\ ~w[a].dont_close /\ ~w[a].dead
            /\ Finished(a) =>
                 /\ ret[a] = HTTP_RESP_UNAUTHORIZED
                 /\ rpt[a].alloc = "freed" /\ rpt[a].frees = 1
                 /\ status[a] \notin {"none", "OK"}
            /\ pc[a] = "returned" =>
                 /\ w[a].body = START_STREAMING_ERROR_NOT_PERMITTED
                 /\ w[a].ifd = "fd"

\* a request whose machine_guid is of the API-key category, and is fine
\* otherwise, was denied
C6_Witness ==
    \E a \in Attempts :
        /\ pc[a] = "returned"
        /\ req[a] = [GoodRequest(req[a].guid, TRUE) EXCEPT !.guidType = "api"]
        /\ status[a] = "STREAM_STATUS_INVALID_MACHINE_GUID"
        /\ ret[a] = HTTP_RESP_UNAUTHORIZED
        /\ rpt[a].alloc = "freed"

\* the wire-outcome class of a rejection, by its cause: a failed check; the
\* service not running, or the rate limit
WireClass(a) ==
    IF pc[a] # "returned" THEN "none"
    ELSE IF ~Allocated(a) THEN "try later"
    ELSE IF FailsSomeCheck(req[a]) THEN "denied"
    ELSE IF "rate" \in visited[a] /\ "rate_passed" \notin visited[a] THEN "try later"
    ELSE "none"

\* what the peer sees of a rejection
PeerVisible(a) == <<ret[a], w[a].body>>

\* C7: two rejections of the same wire-outcome class show the peer the same
\* status code and body: HTTP_RESP_UNAUTHORIZED and not-permitted for the
\* eleven checks, HTTP_RESP_SERVICE_UNAVAILABLE and try-later for the service
\* not running and the rate limit.
C7_SameWireOutcome ==
    /\ \A a \in Attempts : \A b \in Attempts :
         WireClass(a) # "none" /\ WireClass(a) = WireClass(b)
         => PeerVisible(a) = PeerVisible(b)
    /\ \A a \in Attempts :
         /\ WireClass(a) = "denied" =>
              PeerVisible(a) = <<HTTP_RESP_UNAUTHORIZED, START_STREAMING_ERROR_NOT_PERMITTED>>
         /\ WireClass(a) = "try later" =>
              PeerVisible(a) = <<HTTP_RESP_SERVICE_UNAVAILABLE,
                                 START_STREAMING_ERROR_BUSY_TRY_LATER>>

\* two requests denied for different causes, with different status tags
C7_Witness ==
    \E a \in Attempts : \E b \in Attempts \ {a} :
        /\ WireClass(a) = "denied" /\ WireClass(b) = "denied"
        /\ status[a] = "STREAM_STATUS_NOT_ALLOWED_IP"
        /\ status[b] = "STREAM_STATUS_NO_API_KEY"
        /\ PeerVisible(a) = PeerVisible(b)

\* the attempt passed the rate limiter
RatePassed(a) == "rate_passed" \in visited[a]

\* C8: two attempts that passed the rate limiter read their clocks at least
\* web_client_streaming_rate_t apart.
C8_OnePerInterval ==
    \A a \in Attempts : \A b \in Attempts \ {a} :
        RatePassed(a) /\ RatePassed(b) =>
            /\ web_client_streaming_rate_t > 0
            /\ \/ loc[a].now - loc[b].now >= web_client_streaming_rate_t
               \/ loc[b].now - loc[a].now >= web_client_streaming_rate_t

\* two attempts passed the limiter, one interval apart, the later one having
\* read its clock while the earlier was still inside the call
C8_Witness ==
    \E a \in Attempts : \E b \in Attempts \ {a} :
        /\ RatePassed(a) /\ RatePassed(b)
        /\ loc[b].now - loc[a].now = web_client_streaming_rate_t
        /\ Concurrent(a, b)

\* C9 as stated: the limiter rejects, with the try-later result, exactly the
\* attempts that come less than one interval after the last accepted one; an
\* attempt that finds no accepted attempt yet passes; the timestamp changes
\* only when an attempt passes, to the time that attempt read.
C9_RejectsOnlyWithinInterval ==
    [][\A a \in Attempts :
         pc[a] = "rate_check" /\ pc'[a] # "rate_check" =>
            LET tooSoon == /\ last_stream_accepted_t # 0
                           /\ loc[a].now - last_stream_accepted_t
                                < web_client_streaming_rate_t
            IN IF tooSoon
               THEN /\ pc'[a] = "returned"
                    /\ ret'[a] = HTTP_RESP_SERVICE_UNAVAILABLE
                    /\ w'[a].body = START_STREAMING_ERROR_BUSY_TRY_LATER
                    /\ last_stream_accepted_t' = last_stream_accepted_t
               ELSE /\ pc'[a] = "dedup_find"
                    /\ last_stream_accepted_t' = loc[a].now]_vars

\* C10: a request that passes the eleven checks and names this node goes
\* through the takeover only: never the rate limiter, the dedup check, the
\* attach or the queue; the call ends with one same-localhost message sent on
\* the socket, the descriptor freed and the socket closed once, and HTTP_RESP_OK.
C10_SelfConnection ==
    \A a \in Attempts :
        ~FailsSomeCheck(req[a]) /\ req[a].guid = LocalGuid /\ Allocated(a) =>
            /\ pc[a] \in {"validate", "self_takeover", "self_reply", "returned", "closed"}
            /\ visited[a] \subseteq {"takeover"}
            /\ a \notin queue
            /\ \A g \in Guids : hostReceiver[g] # a
            /\ pc[a] \in {"validate", "self_takeover"} => wire[a] = <<>>
            /\ pc[a] = "self_reply" => "takeover" \in visited[a] /\ rpt[a].fd = "fd"
            /\ Finished(a) =>
                 /\ "takeover" \in visited[a]
                 /\ wire[a] = <<START_STREAMING_ERROR_SAME_LOCALHOST>>
                 /\ status[a] = "STREAM_STATUS_LOCALHOST"
                 /\ rpt[a].alloc = "freed" /\ rpt[a].frees = 1
                 /\ sockCloses[a] = 1
                 /\ ret[a] = HTTP_RESP_OK

\* a self-connection was answered while the rate limiter was on and had never
\* let an attempt pass
C10_Witness ==
    \E a \in Attempts :
        /\ pc[a] = "closed"
        /\ req[a] = GoodRequest(LocalGuid, TRUE)
        /\ status[a] = "STREAM_STATUS_LOCALHOST"
        /\ ret[a] = HTTP_RESP_OK
        /\ sockCloses[a] = 1
        /\ web_client_streaming_rate_t > 0
        /\ last_stream_accepted_t = 0

\* C11: the call returns HTTP_RESP_OK exactly when it took the transport
\* over; a call that returns anything else returns unauthorized, service
\* unavailable or conflict and leaves the open socket and the encryption
\* context with the web_client, which may close it.
C11_OkIffTakenOver ==
    \A a \in Attempts :
        /\ Finished(a) =>
             /\ ret[a] = HTTP_RESP_OK <=> "takeover" \in visited[a]
             /\ ret[a] \in {HTTP_RESP_OK, HTTP_RESP_UNAUTHORIZED,
                            HTTP_RESP_SERVICE_UNAVAILABLE, HTTP_RESP_CONFLICT}
        /\ pc[a] = "returned" /\ ret[a] # HTTP_RESP_OK =>
             /\ FrontEndHolds(a)
             /\ w[a].ssl = "conn" /\ ~w[a].dead
             /\ sockCloses[a] = 0
             /\ rpt[a].fd = "none"
             /\ ~Dispatched(a)

\* one call returned a conflict and left the socket to the web server; another
\* took the transport over, failed, and returned HTTP_RESP_OK
C11_Witness ==
    \E a \in Attempts : \E b \in Attempts \ {a} :
        /\ pc[a] = "returned" /\ ret[a] = HTTP_RESP_CONFLICT /\ FrontEndHolds(a)
        /\ pc[b] = "returned" /\ ret[b] = HTTP_RESP_OK
        /\ "takeover" \in visited[b] /\ ~Dispatched(b)
        /\ sockCloses[b] = 1

\* the attempt is inside stream_receiver_send_first_response, or leaving it
\* with false
InFirstResponse(a) ==
    pc[a] \in {"find_host", "set_receiver", "send_reply", "clear_receiver", "not_receiver"}

\* C12: a host never points to a freed descriptor; an attempt that fails after
\* the takeover is no host's receiver when it frees its descriptor; and a step
\* of the handshake changes a host's receiver only from or to its own descriptor.
C12_ReleasedBeforeFreed ==
    [][/\ \A g \in Guids :
            hostReceiver'[g] # NULL => rpt'[hostReceiver'[g]].alloc = "live"
       /\ \A a \in Attempts :
            pc[a] = "not_receiver" /\ pc'[a] = "returned" =>
                \A g \in Guids : hostReceiver[g] # a /\ hostReceiver'[g] # a
       /\ \A a \in Attempts :
            InFirstResponse(a) /\ pc'[a] # pc[a] =>
                \A g \in Guids :
                    hostReceiver'[g] # hostReceiver[g] =>
                        \/ hostReceiver[g] = NULL /\ hostReceiver'[g] = a
                        \/ hostReceiver[g] = a /\ hostReceiver'[g] = NULL]_vars

\* an attempt attached, could not send its reply, released the host and was
\* freed; the host is now served by the other attempt
C12_Witness ==
    \E a \in Attempts : \E b \in Attempts \ {a} :
        /\ status[a] = "STREAM_STATUS_CANT_REPLY"
        /\ Finished(a) /\ rpt[a].alloc = "freed"
        /\ req[a].guid \in Guids
        /\ hostReceiver[req[a].guid] = b
        /\ rpt[b].alloc = "live"

\* C13: the system_info of a descriptor is freed at most once: once the host
\* was returned the descriptor does not refer to it and never frees it; a
\* descriptor freed without a host having been returned freed it exactly once.
C13_SystemInfoFreedOnce ==
    \A a \in Attempts :
        /\ rpt[a].info_frees <= 1
        /\ "host" \in visited[a] =>
             rpt[a].system_info = "none" /\ rpt[a].info_frees = 0
        /\ rpt[a].alloc = "live" /\ "host" \notin visited[a] =>
             rpt[a].system_info = "own" /\ rpt[a].info_frees = 0
        /\ rpt[a].alloc = "freed" /\ "host" \notin visited[a] => rpt[a].info_frees = 1

\* one descriptor was freed after the host took its system_info, the other
\* after no host was returned
C13_Witness ==
    \E a \in Attempts : \E b \in Attempts \ {a} :
        /\ "host" \in visited[a] /\ rpt[a].alloc = "freed" /\ rpt[a].info_frees = 0
        /\ status[b] = "STREAM_STATUS_INTERNAL_SERVER_ERROR"
        /\ rpt[b].alloc = "freed" /\ rpt[b].info_frees = 1

\* the call returned after the dedup check found another receiver
DedupDuplicate(a) == pc[a] = "returned" /\ status[a] = "STREAM_STATUS_ALREADY_CONNECTED"

\* the call returned after rrdhost_set_receiver found another receiver
AttachDuplicate(a) == pc[a] = "returned" /\ status[a] = "STREAM_STATUS_DUPLICATE_RECEIVER"

\* what the caller and the peer get: the result code, the response body, the
\* messages sent on the socket, who holds the socket and how often it was closed
Outcome(a) == <<ret[a], w[a].body, wire[a], FrontEndHolds(a), sockCloses[a]>>

\* the outcome of a duplicate found by the dedup check, lines 626-643
DedupOutcome ==
    <<HTTP_RESP_CONFLICT, START_STREAMING_ERROR_ALREADY_STREAMING, <<>>, TRUE, 0>>

\* C14 as stated: a duplicate found at the attach has the outcome of a
\* duplicate found by the dedup check.
C14_TreatedIdentically ==
    \A a \in Attempts : AttachDuplicate(a) => Outcome(a) = DedupOutcome

\* C14, amended: a duplicate found by the dedup check returns the conflict
\* with the already-streaming body and leaves the socket to the web server; a
\* duplicate found at the attach sends the same already-streaming text, but on
\* the socket it took over, returns HTTP_RESP_OK with an empty body, and its
\* descriptor closes the socket.
C14_DuplicateAtAttach ==
    \A a \in Attempts :
        /\ DedupDuplicate(a) => Outcome(a) = DedupOutcome
        /\ AttachDuplicate(a) =>
             /\ Outcome(a) = <<HTTP_RESP_OK, "",
                               <<START_STREAMING_ERROR_ALREADY_STREAMING>>, FALSE, 1>>
             /\ "takeover" \in visited[a]
             /\ rpt[a].alloc = "freed" /\ rpt[a].frees = 1

\* an attempt was refused at the attach because the other attempt had attached
C14_Witness ==
    \E a \in Attempts : \E b \in Attempts \ {a} :
        /\ AttachDuplicate(a)
        /\ hostReceiver[req[a].guid] = b
        /\ "dedup" \in visited[a] /\ "receiver_seen" \notin visited[a]

\* C15 as stated: two concurrent attempts for one machine identity never both
\* find the attached receiver stale and both send it a stop signal.
C15_OneEvictor ==
    \A a \in Attempts : \A b \in Attempts \ {a} :
        (/\ Concurrent(a, b)
         /\ loc[a].host # "none" /\ loc[a].host = loc[b].host
         /\ hostReceiver[loc[a].host] = OldReceiver
         /\ SawStaleReceiver(a) /\ SawStaleReceiver(b))
        => ~("stop_signal" \in visited[a] /\ "stop_signal" \in visited[b])

\* the stop-and-wait of the attempt returned false
StopFailed(a) ==
    /\ SawStaleReceiver(a)
    /\ "stop_call" \in visited[a] /\ "stopped" \notin visited[a]
    /\ pc[a] # "stop_wait"

\* C16: an attempt whose stop-and-wait on a stale receiver did not succeed
\* takes nothing over and attaches nowhere; it ends with HTTP_RESP_CONFLICT
\* and the already-streaming body, the socket left to the web server, its
\* descriptor freed once; the rate-limit timestamp it wrote is not taken back.
C16_StopFailedRejects ==
    \A a \in Attempts :
        StopFailed(a) =>
            /\ pc[a] \in {"dedup_decide", "returned", "closed"}
            /\ visited[a] \cap {"takeover", "host", "attach", "reply_sent", "queue"} = {}
            /\ rpt[a].fd = "none" /\ w[a].ssl = "conn"
            /\ \A g \in Guids : hostReceiver[g] # a
            /\ Finished(a) =>
                 /\ ret[a] = HTTP_RESP_CONFLICT
                 /\ status[a] = "STREAM_STATUS_ALREADY_CONNECTED"
                 /\ rpt[a].alloc = "freed" /\ rpt[a].frees = 1
            /\ pc[a] = "returned" =>
                 /\ w[a].body = START_STREAMING_ERROR_ALREADY_STREAMING
                 /\ FrontEndHolds(a)
            /\ RatePassed(a) =>
                 /\ last_stream_accepted_t # 0
                 /\ last_stream_accepted_t >= loc[a].now

\* the stale receiver was told to stop and is still attached; the attempt that
\* told it was rejected, and the rate limiter still holds the attempt's time
C16_Witness ==
    \E a \in Attempts :
        /\ StopFailed(a) /\ "stop_signal" \in visited[a]
        /\ pc[a] = "returned" /\ ret[a] = HTTP_RESP_CONFLICT
        /\ hostReceiver[loc[a].host] = OldReceiver /\ rpt[OldReceiver].shutdown
        /\ RatePassed(a) /\ last_stream_accepted_t = loc[a].now

\* the status tags of the eleven checks, in the order of lines 408-527
CheckTags ==
    <<"STREAM_STATUS_NO_API_KEY", "STREAM_STATUS_NO_HOSTNAME",
      "STREAM_STATUS_NO_MACHINE_GUID", "STREAM_STATUS_INVALID_API_KEY",
      "STREAM_STATUS_INVALID_MACHINE_GUID", "STREAM_STATUS_INVALID_API_KEY",
      "STREAM_STATUS_API_KEY_DISABLED", "STREAM_STATUS_NOT_ALLOWED_IP",
      "STREAM_STATUS_INVALID_MACHINE_GUID", "STREAM_STATUS_MACHINE_GUID_DISABLED",
      "STREAM_STATUS_NOT_ALLOWED_IP">>

\* the request passes the i-th check
PassesCheck(r, i) ==
    CASE i = 1 -> r.hasKey
      [] i = 2 -> r.hasHost
      [] i = 3 -> r.hasGuid
      [] i = 4 -> r.keyUuid
      [] i = 5 -> r.guidUuid
      [] i = 6 -> r.keyType = "api"
      [] i = 7 -> r.keyEnabled
      [] i = 8 -> r.keyIp
      [] i = 9 -> r.guidType = "machine"
      [] i = 10 -> r.guidEnabled
      [] i = 11 -> r.guidIp

\* the earliest check the request fails; 0 when it passes them all
FirstFailing(r) ==
    IF \A i \in 1..Len(CheckTags) : PassesCheck(r, i) THEN 0
    ELSE CHOOSE i \in 1..Len(CheckTags) :
             ~PassesCheck(r, i) /\ \A j \in 1..(i - 1) : PassesCheck(r, j)

\* C17: once the checks ran, a request that fails some of them was rejected
\* with the status tag of the earliest check it fails, and went through no
\* later stage; a request that passes them all got none of their rejections.
C17_EarliestCheckRejects ==
    \A a \in Attempts :
        Allocated(a) /\ pc[a] \notin {"accept", "validate"} =>
            IF FirstFailing(req[a]) # 0
            THEN /\ status[a] = CheckTags[FirstFailing(req[a])]
                 /\ Finished(a)
                 /\ ret[a] = HTTP_RESP_UNAUTHORIZED
                 /\ visited[a] = {} /\ wire[a] = <<>>
            ELSE /\ ret[a] # HTTP_RESP_UNAUTHORIZED
                 /\ pc[a] = "returned" => status[a] \in {"STREAM_STATUS_LOCALHOST",
                                                       "STREAM_STATUS_RATE_LIMIT"}

\* a request that fails the fifth, the sixth, the seventh and the eighth check
\* was rejected by the fifth
C17_Witness ==
    \E a \in Attempts :
        /\ pc[a] = "returned"
        /\ ~req[a].guidUuid /\ req[a].keyType = "machine"
        /\ ~req[a].keyEnabled /\ ~req[a].keyIp
        /\ FirstFailing(req[a]) = 5
        /\ status[a] = "STREAM_STATUS_INVALID_MACHINE_GUID"

\* why the call rejected the request: the check that failed, the
\* self-connection guard, or the rate limit
Cause(a) ==
    IF pc[a] # "returned" \/ ~Allocated(a) THEN <<"none", 0>>
    ELSE IF FirstFailing(req[a]) # 0 THEN <<"check", FirstFailing(req[a])>>
    ELSE IF req[a].guid = LocalGuid THEN <<"self", 0>>
    ELSE IF ret[a] = HTTP_RESP_SERVICE_UNAVAILABLE THEN <<"rate limit", 0>>
    ELSE <<"none", 0>>

\* C18 as stated: two requests rejected for different causes are logged with
\* different status tags.
C18_DistinctTags ==
    \A a \in Attempts : \A b \in Attempts \ {a} :
        Cause(a)[1] # "none" /\ Cause(b)[1] # "none" /\ Cause(a) # Cause(b)
        => status[a] # status[b]

\* the handshake replies among the messages the attempt sent on the socket
Replies(a) == SelectSeq(wire[a], LAMBDA m : m = START_STREAMING_PROMPT)

HoldsNoLock(a) ==
    /\ spinlock # a
    /\ a \notin rrdReaders
    /\ \A g \in Guids : receiverLock[g] # a

\* the descriptor is its host's receiver and with a stream thread, or was with
\* one until the receiver ended
HandedOff(a) ==
    /\ Dispatched(a)
    /\ \/ a \in queue /\ hostReceiver[req[a].guid] = a /\ rpt[a].alloc = "live"
       \/ a \notin queue /\ rpt[a].alloc = "freed"

\* nothing of the attempt is left: no descriptor, no system_info, no
\* attachment, no queue entry, and the socket closed or left to the web server
FailedClosed(a) ==
    /\ ~Dispatched(a) /\ a \notin queue
    /\ rpt[a].alloc \in {"none", "freed"}
    /\ rpt[a].frees <= 1
    /\ rpt[a].fd = "none" /\ rpt[a].system_info = "none"
    /\ \A g \in Guids : hostReceiver[g] # a
    /\ sockCloses[a] = 1 \/ w[a].ifd = "fd" \/ pc[a] = "closed"

\* C20: every call that was entered returns; a call that returned holds no
\* lock, and either handed its descriptor off or left nothing behind.
C20_ReturnsWithoutLocks ==
    /\ [](\A a \in Attempts :
            Finished(a) => HoldsNoLock(a) /\ (HandedOff(a) \/ FailedClosed(a)))
    /\ \A a \in Attempts : (pc[a] = "accept") ~> Finished(a)

\* a call passed the limiter, evicted a stale receiver and handed its
\* descriptor off, while the other call was refused by the limiter
C20_Witness ==
    \E a \in Attempts : \E b \in Attempts \ {a} :
        /\ Finished(a) /\ HandedOff(a) /\ a \in queue
        /\ {"rate_passed", "stop_signal", "stopped"} \subseteq visited[a]
        /\ Finished(b) /\ FailedClosed(b)
        /\ status[b] = "STREAM_STATUS_RATE_LIMIT"

\* -------------------------------------------------------- the parsed fields

\* the pairs the loop has taken so far
Taken == SubSeq(query, 1, Len(query) - Len(decoded_query_string))

\* the pairs taken so far that carry the name and a value
Occurrences(name) == SelectSeq(Taken, LAMBDA p : p[1] = name /\ p[2] # "")

\* the recognized fields kept as text, and those kept as numbers
TextFields ==
    {"key", "hostname", "registry_hostname", "machine_guid", "os", "timezone",
     "abbrev_timezone"}
NumberFields ==
    {"update_every", "utc_offset", "hops", "ml_capable", "ml_enabled", "mc_version"}

\* C21: the attribute of every recognized field is the value of the first
\* occurrence of the field, however many occurrences follow it.
C21_FirstOccurrenceWins ==
    /\ \A f \in TextFields :
         Occurrences(f) # <<>> => parsed[f] = Head(Occurrences(f))[2]
    /\ \A f \in NumberFields :
         Occurrences(f) # <<>> => parsed[f] = strtoul(Head(Occurrences(f))[2])

\* ------------------------------------------------- the negotiated capabilities

\* the pairs taken so far that bear a version
VersionBearing ==
    SelectSeq(Taken, LAMBDA p : p[1] \in {"ver", "NETDATA_PROTOCOL_VERSION"} /\ p[2] # "")

\* what a version-bearing pair asks for: `ver` its value, the legacy field the
\* oldest supported version
RequestedCapabilities(p) ==
    IF p[1] = "ver" THEN convert_stream_version_to_capabilities(strtoul(p[2]))
    ELSE convert_stream_version_to_capabilities(0)

C23_ReplyOfCapabilities ==
    /\ [](parse_pc = "send" =>
            LET caps == parsed.capabilities
                vcaps == HasCap(caps, STREAM_CAP_VCAPS)
                vn == HasCap(caps, STREAM_CAP_VN)
                v2 == HasCap(caps, STREAM_CAP_V2)
            IN /\ vcaps => initial_response = <<START_STREAMING_PROMPT_VN, caps>>
               /\ ~vcaps /\ vn =>
                    initial_response =
                       <<START_STREAMING_PROMPT_VN, stream_capabilities_to_vn(caps)>>
               /\ ~vcaps /\ ~vn /\ v2 => initial_response = <<START_STREAMING_PROMPT_V2>>
               /\ ~vcaps /\ ~vn /\ ~v2 => initial_response = <<START_STREAMING_PROMPT_V1>>)
    /\ [][parse_pc = "reply" =>
            UNCHANGED <<parsed, query, decoded_query_string, attemptVars, rpt, sockCloses,
                        hostVars, rateVars, confVars, clock, queue>>]_vars

\* the reply was written for capabilities that hold the newest tier and the
\* oldest one
C23_Witness ==
    /\ parse_pc = "send"
    /\ HasCap(parsed.capabilities, STREAM_CAP_VCAPS)
    /\ HasCap(parsed.capabilities, STREAM_CAP_V1)
    /\ initial_response = <<START_STREAMING_PROMPT_VN, parsed.capabilities>>

\* ------------------------------------------------- what a rejection leaves

\* the call returned at the service check or at one of the eleven checks
RejectedEarly(a) == Finished(a) /\ (~Allocated(a) \/ FailsSomeCheck(req[a]))

\* C24: a call that ends at the service check or at an identity or key check
\* never read the clock of the limiter, looked a host up, signalled a receiver
\* or sent anything; its steps leave the limiter, the hosts, the attachments,
\* the queue and every other descriptor as they were.
C24_RejectionFrame ==
    /\ [](\A a \in Attempts :
            RejectedEarly(a) =>
               visited[a] = {} /\ loc[a] = NoLocals /\ wire[a] = <<>>)
    /\ [][\A a \in Attempts :
            /\ pc[a] \in {"accept", "validate"}
            /\ pc'[a] # pc[a]
            /\ pc'[a] = "returned" \/ FailsSomeCheck(req[a])
            => /\ UNCHANGED <<rateVars, hostVars, queue>>
               /\ \A d \in Desc \ {a} : rpt'[d] = rpt[d]]_vars

\* a request was refused by a check while the limiter had a timestamp, the
\* host of g1 a receiver, and another call was past the limiter
C24_Witness ==
    \E a \in Attempts : \E b \in Attempts \ {a} :
        /\ pc[a] = "returned" /\ Allocated(a) /\ FailsSomeCheck(req[a])
        /\ ret[a] = HTTP_RESP_UNAUTHORIZED
        /\ last_stream_accepted_t # 0
        /\ hostReceiver["g1"] # NULL
        /\ RatePassed(b) /\ b \in overlap[a]

\* ------------------------------------------------ the life of a descriptor

\* the call freed its descriptor and never queued it
FreedByCall(a) ==
    /\ ~Dispatched(a) /\ a \notin queue
    /\ rpt[a].alloc = "freed" /\ rpt[a].frees = 1

\* the call queued its descriptor and did not free it: it is live with a
\* stream thread, or the stream thread freed it when the receiver ended
QueuedByCall(a) ==
    /\ Dispatched(a)
    /\ \/ a \in queue /\ rpt[a].alloc = "live" /\ rpt[a].frees = 0
       \/ a \notin queue /\ rpt[a].alloc = "freed" /\ rpt[a].frees = 1

\* C25: when the call has returned, a descriptor it allocated was freed once
\* by the call or queued once by it, and not both; a freed descriptor belongs
\* to a call that is over and is neither attached nor queued; the call queues
\* only a live descriptor it has not queued before, and only a stream thread
\* frees a queued one.
C25_FreedOrEnqueuedOnce ==
    /\ [](\A a \in Attempts :
            /\ Finished(a) /\ Allocated(a) => FreedByCall(a) \/ QueuedByCall(a)
            /\ ~(FreedByCall(a) /\ QueuedByCall(a))
            /\ rpt[a].frees <= 1
            /\ rpt[a].alloc = "freed" =>
                 /\ Finished(a) /\ a \notin queue
                 /\ \A g \in Guids : hostReceiver[g] # a)
    /\ [][\A a \in Attempts :
            /\ a \in queue' /\ a \notin queue =>
                 /\ ~Dispatched(a) /\ rpt[a].alloc = "live" /\ rpt'[a].alloc = "live"
                 /\ pc[a] = "enqueue" /\ pc'[a] = "returned"
            /\ rpt'[a].frees > rpt[a].frees /\ Dispatched(a) =>
                 /\ a \in queue /\ a \notin queue'
                 /\ Finished(a) /\ pc'[a] = pc[a]]_vars

\* of two calls that have returned, one freed its descriptor after the
\* handshake could not be completed and the other queued its descriptor
C25_Witness ==
    \E a \in Attempts : \E b \in Attempts \ {a} :
        /\ Finished(a) /\ FreedByCall(a) /\ "host" \in visited[a]
        /\ Finished(b) /\ QueuedByCall(b) /\ b \in queue
====
